---- MODULE Spec2Model ----
(***************************************************************************)
(* Alerting engine core of hack-deriv-backend                              *)
(* (src/app/services/alert_engine.py, class AlertEngineService).           *)
(*                                                                         *)
(* Time is counted in whole ticks of the wall clock.  Event timestamps are *)
(* the ISO-8601 strings of datetime.utcnow().isoformat(); strings of that  *)
(* one format order lexicographically as the instants they denote, and the *)
(* Redis path converts them with datetime.fromisoformat(..).timestamp(),   *)
(* which is the same instant when the process runs in UTC.  A timestamp is *)
(* therefore modelled by its tick number in both backends.                 *)
(***************************************************************************)
EXTENDS Integers, Sequences, FiniteSets, TLC

\* ------------------------------------------------------------------ bounds
MaxClock == 2        \* last tick of the wall clock
MaxEvents == 2       \* events appended to the events table
MaxWinOps == 3       \* record calls of the window-only specification
MaxRetries == 1      \* process_event calls on an event it was called on before
MaxConds == 2        \* items of a filter_json object
MaxCalls == 3        \* direct process_event calls of the metric API specification

\* ------------------------------------------------------- program constants
TtlBuffer == 60      \* redis.expire(key, window_sec + 60)
FetchLimit == 100    \* fetch_new_events(last_id, limit=100)

Times == 0..MaxClock
Windows == {1, 2}    \* window_sec values of the metrics
None == 0 - 1       \* an absent value (Python None, SQL NULL, missing Redis key)

VARIABLES
  clock,            \* time.time() / datetime.utcnow(), in ticks
  redis_up,         \* the Redis server answers (environment)
  redis_zsets,      \* Redis: key metric:{id} -> [z: score -> multiplicity, exp: expiry]
  redis_cursor,     \* Redis: key alert_engine:last_processed_id
  metric_windows,   \* SQLite table metric_windows: metric_id -> timestamp -> rows
  events,           \* SQLite table events, in id order (id = position)
  metric_specs,     \* SQLite table metric_specs: metric_id -> row
  alert_history,    \* SQLite table alert_history, in insertion order
  anomaly_history,  \* SQLite table anomaly_history: metric_id -> row or NoRow
  svc,              \* the AlertEngineService instance of the running process
  loop,             \* the run_engine thread: position, local cursor, batch
  ev,               \* history: metric_id -> what its last evaluate_alert call saw and did
  fed,              \* history: metric_id -> update_metric_window calls made for it
  seen,             \* history: ids of the events process_event was called on
  completed,        \* history: ids of the events whose process_event call returned
  retries,          \* history: process_event calls on an event of seen
  max_saved,        \* history: largest id ever passed to save_last_processed_id
  wres,             \* window-only specification: window, log of calls, last count
  fres,             \* filter-only specification: the last matches_filter call
  upd,              \* the last update_metric call that passed an is_active argument
  ins,              \* insert_event calls in flight on one instance, and its connection pool
  db_failed         \* history: ids of the events whose last process_event call met a
                    \* failing SQLite statement

\* ------------------------------------------------------ window structures
RECURSIVE SumOver(_, _)
SumOver(f, S) ==
  IF S = {} THEN 0
  ELSE LET t == CHOOSE x \in S : TRUE IN f[t] + SumOver(f, S \ {t})

NoRows == [t \in Times |-> 0]
NoKey == [z |-> NoRows, exp |-> None]

\* A Redis key past its TTL, or whose sorted set is empty, does not exist.
LiveZ(key, now) ==
  IF key.exp # None /\ now >= key.exp THEN NoRows ELSE key.z

\* _update_metric_window_redis: ZADD, ZREMRANGEBYSCORE key 0 (now - w), EXPIRE
UpdateMetricWindowRedis(key, ts, now, window_sec) ==
  LET added == [LiveZ(key, now) EXCEPT ![ts] = @ + 1]
      window_start == now - window_sec
      kept == [t \in Times |-> IF t <= window_start THEN 0 ELSE added[t]]
  IN IF kept = NoRows
       THEN NoKey
       ELSE [z |-> kept, exp |-> now + window_sec + TtlBuffer]

\* _update_metric_window_sqlite: INSERT, DELETE ... event_timestamp < window_start
UpdateMetricWindowSqlite(rows, ts, now, window_sec) ==
  LET added == [rows EXCEPT ![ts] = @ + 1]
      window_start == now - window_sec
  IN [t \in Times |-> IF t < window_start THEN 0 ELSE added[t]]

\* _get_window_count_redis: ZCOUNT key (now - w) now
GetWindowCountRedis(key, now, window_sec) ==
  LET z == LiveZ(key, now)
  IN SumOver(z, {t \in Times : now - window_sec <= t /\ t <= now})

\* _get_window_count_sqlite: COUNT(*) ... event_timestamp >= window_start
GetWindowCountSqlite(rows, now, window_sec) ==
  SumOver(rows, {t \in Times : t >= now - window_sec})

\* ------------------------------------------------------- filter matching
\* JSON values of a payload field or of a filter's expected value; l holds the
\* items of a list.
AbsentV == [t |-> "absent", n |-> 0, s |-> "", l |-> {}]
IntV(n) == [t |-> "int", n |-> n, s |-> "", l |-> {}]
StrV(s) == [t |-> "str", n |-> 0, s |-> s, l |-> {}]
ListV(items) == [t |-> "list", n |-> 0, s |-> "", l |-> items]

Fields == {"status", "amount"}
Payload(status, amount) == [status |-> status, amount |-> amount]

PFailed == Payload(StrV("failed"), AbsentV)          \* {"status": "failed"}
PSuccess == Payload(StrV("success"), AbsentV)        \* {"status": "success"}
PFailedText == Payload(StrV("failed"), StrV("n/a"))  \* {"status": "failed", "amount": "n/a"}

\* A stored filter_json value.  kind "object": text that parses to a JSON
\* object, items its item list in dict order (op is the operator the key's
\* suffix selects, key the key without the suffix); kind "absent": None, '' or
\* '{}'; kind "text": text that is not JSON; kind "list": JSON that parses to
\* a non-empty value that is not an object, such as '[1]'.
Cond(key, op, val) == [key |-> key, op |-> op, val |-> val]
Obj(items) == [kind |-> "object", items |-> items]
FAbsent == [kind |-> "absent", items |-> << >>]
FNotJson == [kind |-> "text", items |-> << >>]
FJsonList == [kind |-> "list", items |-> << >>]
FFailed == Obj(<< Cond("status", "eq", StrV("failed")) >>) \* {"status": "failed"}
FAmountGt == Obj(<< Cond("amount", "gt", IntV(1)) >>)      \* {"amount_gt": 1}

\* Python's order of two str values, for the strings the payloads use
StrRank(s) == IF s = "failed" THEN 0 ELSE IF s = "n/a" THEN 1 ELSE 2
Ord(v) == IF v.t = "int" THEN v.n ELSE StrRank(v.s)

\* The comparison of one filter item: "pass", "fail" (return False) or "raise"
\* (Python's TypeError: an ordering of values of different types or of lists
\* with scalars, `in` with an int on the right or with a non-str in a str).
CheckCond(payload, c) ==
  LET actual == payload[c.key] IN
  IF actual = AbsentV THEN "fail"
  ELSE IF c.op = "eq" THEN (IF actual # c.val THEN "fail" ELSE "pass")
  ELSE IF c.op = "in"
    THEN IF c.val.t = "list" THEN (IF actual \notin c.val.l THEN "fail" ELSE "pass")
         ELSE IF c.val.t = "str" /\ actual.t = "str"
           THEN (IF actual.s # c.val.s THEN "fail" ELSE "pass")
         ELSE "raise"
  ELSE IF actual.t # c.val.t \/ actual.t \notin {"int", "str"} THEN "raise"
  ELSE IF c.op = "gt" THEN (IF Ord(actual) <= Ord(c.val) THEN "fail" ELSE "pass")
  ELSE IF c.op = "lt" THEN (IF Ord(actual) >= Ord(c.val) THEN "fail" ELSE "pass")
  ELSE IF c.op = "gte" THEN (IF Ord(actual) < Ord(c.val) THEN "fail" ELSE "pass")
  ELSE (IF Ord(actual) > Ord(c.val) THEN "fail" ELSE "pass")

\* matches_filter's loop over filter_dict.items()
RECURSIVE MatchItems(_, _)
MatchItems(payload, items) ==
  IF items = << >> THEN "true"
  ELSE LET r == CheckCond(payload, Head(items)) IN
       IF r = "fail" THEN "false"
       ELSE IF r = "raise" THEN "raise"
       ELSE MatchItems(payload, Tail(items))

\* matches_filter: "true", "false" or "raise"
MatchesFilter(payload, filter_json) ==
  IF filter_json.kind \in {"absent", "text"} THEN "true"
  ELSE IF filter_json.kind = "list" THEN "raise"
  ELSE MatchItems(payload, filter_json.items)

\* -------------------------------------------------------------- metrics
MetricIds == {1, 2}
Thresholds == {0, 1}

Metric(table_name, filter, window_sec, threshold) ==
  [present |-> TRUE, table_name |-> table_name, filter |-> filter,
   window_sec |-> window_sec, threshold |-> threshold, is_active |-> FALSE]

\* no row with this metric_id
NoMetric ==
  [present |-> FALSE, table_name |-> "", filter |-> FAbsent, window_sec |-> 1,
   threshold |-> 0, is_active |-> FALSE]

NoRow == [alert_count |-> 0, detected_at |-> None, last_seen_at |-> None,
          last_resolved_at |-> None, current_status |-> "absent"]

HistoryOf(hist, m) == SelectSeq(hist, LAMBDA r : r.metric_id = m)
TriggeredCount(hist, m) ==
  Len(SelectSeq(hist, LAMBDA r : r.metric_id = m /\ r.action = "triggered"))

\* ------------------------------------------------- sliding-window backend
\* The database and service state one process_event call reads and writes.
\* update_metric_window: Redis while _redis_available, SQLite after a RedisError
UpdateMetricWindow(S, m, ts, window_sec, now, up) ==
  IF S.avail /\ up
    THEN [S EXCEPT !.zsets[m] = UpdateMetricWindowRedis(@, ts, now, window_sec)]
    ELSE [S EXCEPT !.avail = FALSE,
                   !.windows[m] = UpdateMetricWindowSqlite(@, ts, now, window_sec)]

GetWindowCountReprobe(S, m, window_sec, now, up) ==
  IF up
    THEN [count |-> GetWindowCountRedis(S.zsets[m], now, window_sec), avail |-> TRUE]
    ELSE [count |-> GetWindowCountSqlite(S.windows[m], now, window_sec), avail |-> FALSE]

\* get_window_count: the count, and _redis_available after the call
GetWindowCount(S, m, window_sec, now, up) ==
  IF S.avail /\ up
    THEN [count |-> GetWindowCountRedis(S.zsets[m], now, window_sec), avail |-> TRUE]
    ELSE [count |-> GetWindowCountSqlite(S.windows[m], now, window_sec), avail |-> FALSE]

\* clear_metric_window: the Redis key when Redis answers, and the SQLite rows
ClearMetricWindow(S, m, up) ==
  [S EXCEPT !.zsets[m] = IF S.avail /\ up THEN NoKey ELSE @,
            !.windows[m] = NoRows]

\* ------------------------------------------------------- alert evaluation
UpsertAnomalyHistoryIncrement(hist, existing, m, action, now) ==
  [current_status |-> IF action = "triggered" THEN "active" ELSE "resolved",
   alert_count |-> existing.alert_count + 1,
   detected_at |-> existing.detected_at, last_seen_at |-> now,
   last_resolved_at |-> existing.last_resolved_at]

UpsertAnomalyHistoryTouch(hist, existing, m, action, now) ==
  [alert_count |-> TriggeredCount(hist, m),
   detected_at |-> IF action = "triggered" /\ existing.current_status # "active"
                     THEN now ELSE existing.detected_at,
   last_seen_at |-> now,
   last_resolved_at |-> IF action = "resolved" THEN now ELSE existing.last_resolved_at,
   current_status |-> IF action = "triggered" THEN "active" ELSE "resolved"]

UpsertAnomalyHistoryStale(hist, existing, m, action, now) ==
  LET alert_count == TriggeredCount(hist, m) IN
  IF action = "triggered"
    THEN [alert_count |-> alert_count,
          detected_at |-> IF existing.current_status # "active" THEN now
                          ELSE existing.detected_at,
          last_seen_at |-> now, last_resolved_at |-> existing.last_resolved_at,
          current_status |-> "active"]
    ELSE [existing EXCEPT !.current_status = "resolved"]

\* _upsert_anomaly_history: the row written for the metric
UpsertAnomalyHistory(hist, existing, m, action, now) ==
  LET alert_count == TriggeredCount(hist, m)
      absent == existing.current_status = "absent"
  IN IF action = "triggered"
       THEN [alert_count |-> alert_count,
             detected_at |-> IF absent \/ existing.current_status = "resolved"
                               THEN now
                               ELSE IF existing.detected_at # None
                                      THEN existing.detected_at ELSE now,
             last_seen_at |-> now,
             last_resolved_at |-> existing.last_resolved_at,
             current_status |-> "active"]
       ELSE [alert_count |-> alert_count,
             detected_at |-> existing.detected_at,
             last_seen_at |-> existing.last_seen_at,
             last_resolved_at |-> now,
             current_status |-> "resolved"]

\* _trigger_alert / _resolve_alert: history row, is_active flag, anomaly row
Transition(S, m, metric, action, count, now) ==
  LET hist == Append(S.hist, [metric_id |-> m, action |-> action,
                              event_count |-> count, threshold |-> metric.threshold])
  IN [S EXCEPT !.hist = hist,
               !.specs[m].is_active = (action = "triggered"),
               !.anom[m] = UpsertAnomalyHistory(hist, @, m, action, now)]

TriggerAlertNoLedger(S, m, metric, count, now) ==
  [Transition(S, m, metric, "triggered", count, now) EXCEPT !.anom = S.anom]

ResolveAlertRewrites(S, m, metric, count, now) ==
  [Transition(S, m, metric, "resolved", count, now) EXCEPT
     !.hist = [i \in 1..Len(S.hist) |->
                 IF S.hist[i].metric_id = m
                   THEN [S.hist[i] EXCEPT !.action = "resolved"] ELSE S.hist[i]]]

ResolveAlertKeepsFlag(S, m, metric, count, now) ==
  [Transition(S, m, metric, "resolved", count, now) EXCEPT !.specs = S.specs]

TriggerAlert(S, m, metric, count, now) == Transition(S, m, metric, "triggered", count, now)
ResolveAlert(S, m, metric, count, now) == Transition(S, m, metric, "resolved", count, now)

\* evaluate_alert's decision, lines 476-479
AlertActionGe(count, threshold, is_active) ==
  IF count >= threshold /\ ~is_active THEN "triggered"
  ELSE IF count < threshold /\ is_active THEN "resolved"
  ELSE "none"

AlertActionUnguarded(count, threshold, is_active) ==
  IF count > threshold THEN "triggered"
  ELSE IF is_active THEN "resolved"
  ELSE "none"

AlertAction(count, threshold, is_active) ==
  IF count > threshold /\ ~is_active THEN "triggered"
  ELSE IF count <= threshold /\ is_active THEN "resolved"
  ELSE "none"

\* evaluate_alert on the row `metric` that process_event loaded; ev[m] records
\* what the call saw and did.
EvaluateAlert(S, m, metric, now, up) ==
  LET g == GetWindowCount(S, m, metric.window_sec, now, up)
      S1 == [S EXCEPT !.avail = g.avail]
      action == AlertAction(g.count, metric.threshold, metric.is_active)
      S2 == IF action = "triggered" THEN TriggerAlert(S1, m, metric, g.count, now)
            ELSE IF action = "resolved" THEN ResolveAlert(S1, m, metric, g.count, now)
            ELSE S1
      res == IF g.count > metric.threshold THEN "above" ELSE "below"
      moved == action # "none"
      wrote == SubSeq(HistoryOf(S2.hist, m), Len(HistoryOf(S.hist, m)) + 1,
                      Len(HistoryOf(S2.hist, m)))
      old == S.ev[m]
      sameRun == old.res = res
  IN [S2 EXCEPT !.ev[m] =
        [res |-> res, tie |-> g.count = metric.threshold,
         before |-> metric.is_active, wrote |-> [i \in DOMAIN wrote |-> wrote[i].action],
         run |-> IF sameRun THEN old.run + Len(wrote) ELSE Len(wrote),
         runStart |-> IF sameRun THEN old.runStart ELSE metric.is_active,
         at |-> IF moved THEN now ELSE None,
         acBefore |-> IF moved THEN S.anom[m].alert_count ELSE 0]]

\* ------------------------------------------------------- event processing
ProcessMetricEvaluateFirst(S, m, metric, event, now, up) ==
  LET r == MatchesFilter(event.payload, metric.filter) IN
  IF r = "raise" THEN [S EXCEPT !.raised = TRUE]
  ELSE IF r = "false" THEN S
  ELSE LET S1 == EvaluateAlert(S, m, metric, now, up)
           S2 == UpdateMetricWindow(S1, m, event.created_at, metric.window_sec, now, up)
       IN [S2 EXCEPT !.fed[m].n = @ + 1]

\* process_event's loop body for one metric of the event's table
ProcessMetric(S, m, metric, event, now, up) ==
  LET r == MatchesFilter(event.payload, metric.filter) IN
  IF r = "raise" THEN [S EXCEPT !.raised = TRUE]
  ELSE IF r = "false" THEN S
  ELSE LET S1 == UpdateMetricWindow(S, m, event.created_at, metric.window_sec, now, up)
           old == S.fed[m]
           oldest == IF old.n = 0 \/ event.created_at < old.oldest
                       THEN event.created_at ELSE old.oldest
           S2 == [S1 EXCEPT !.fed[m] =
                    [n |-> old.n + 1, oldest |-> oldest,
                     ok |-> old.ok /\ now - metric.window_sec < oldest]]
       IN EvaluateAlert(S2, m, metric, now, up)

\* process_event: the metrics of get_metrics_for_table, in metric_id order,
\* until one raises
RECURSIVE ProcessMetrics(_, _, _, _, _, _)
ProcessMetrics(S, ids, snapshot, event, now, up) ==
  IF ids = {} \/ S.raised THEN S
  ELSE LET m == CHOOSE x \in ids : \A y \in ids : x <= y
       IN ProcessMetrics(ProcessMetric(S, m, snapshot[m], event, now, up),
                         ids \ {m}, snapshot, event, now, up)

ProcessEvent(S, event, now, up) ==
  ProcessMetrics(S, {m \in MetricIds : S.specs[m].present
                                       /\ S.specs[m].table_name = event.table_name},
                 S.specs, event, now, up)

\* ------------------------------------------------------------ the state
Event(table_name, payload) == [table_name |-> table_name, payload |-> payload]
PlainKinds == { Event("login", PFailed), Event("login", PSuccess) }
EventKinds == { Event("login", PFailed), Event("login", PFailedText) }

NoEval == [res |-> "none", tie |-> FALSE, before |-> FALSE, wrote |-> << >>,
           run |-> 0, runStart |-> FALSE, at |-> None, acBefore |-> 0]
NoFeed == [n |-> 0, oldest |-> 0, ok |-> TRUE]
NoWres == [w |-> 1, log |-> NoRows, seen |-> NoRows, ops |-> 0, done |-> FALSE,
           at |-> 0, primary |-> 0, fallback |-> 0]
NoUpd == [metric_id |-> None, flag |-> 0, before |-> FALSE]
NoFres == [done |-> FALSE, payload |-> Payload(AbsentV, AbsentV),
           filter_json |-> FAbsent, result |-> "none"]

\* The threads that call insert_event on one instance (EventGenerator.start_all
\* starts one per event type on its engine_service).
Producers == {1, 2}

\* pool: the idle connections of create_engine's pool, each by the value its
\* last_insert_rowid() returns (0 on a connection that inserted nothing), in
\* the order they were returned; call: where each producer's insert_event call
\* stands, the connection it holds, the id the store gave to its row; done:
\* the finished calls as <<id of the row, returned value>>.
NoCall == [pc |-> "idle", conn |-> None, id |-> 0]
NoIns == [pool |-> << >>, call |-> [p \in Producers |-> NoCall], done |-> {}]

\* AlertEngineService.__init__: _redis_available is the result of the ping
\* threads: the loop threads of the instance that are alive; ignored: whether
\* start_background returned early ("Engine already running"), and whether the
\* stop event was set then; ignored_at: where the loop thread stood then
NewService(up) ==
  [redis_available |-> up, last_processed_id |-> 0,
   engine_status |-> "stopped", stop_event |-> FALSE,
   threads |-> 0, ignored |-> "no", ignored_at |-> "idle"]

IdleLoop == [pc |-> "idle", last_processed_id |-> 0, batch |-> << >>, n |-> 0,
             k |-> 0, raised |-> FALSE, saved |-> FALSE, pre |-> <<0, None>>]

InitDb(specs) ==
  /\ clock = 0
  /\ redis_zsets = [m \in MetricIds |-> NoKey]
  /\ redis_cursor = None
  /\ metric_windows = [m \in MetricIds |-> NoRows]
  /\ events = << >>
  /\ metric_specs = specs
  /\ alert_history = << >>
  /\ anomaly_history = [m \in MetricIds |-> NoRow]
  /\ loop = IdleLoop
  /\ ev = [m \in MetricIds |-> NoEval]
  /\ fed = [m \in MetricIds |-> NoFeed]
  /\ seen = {}
  /\ completed = {}
  /\ retries = 0
  /\ max_saved = 0
  /\ wres = NoWres
  /\ fres = NoFres
  /\ upd = NoUpd
  /\ ins = NoIns
  /\ db_failed = {}

\* Metric 1: failed logins, window 2, threshold 1.
\* Metric 2: logins with amount > 1, window 1, threshold 0.
DefaultMetrics ==
  [m \in MetricIds |-> IF m = 1 THEN Metric("login", FFailed, 2, 1)
                                ELSE Metric("login", FAmountGt, 1, 0)]

\* Metric 1 alone.
OneMetric == [DefaultMetrics EXCEPT ![2] = NoMetric]

Init ==
  /\ InitDb(OneMetric)
  /\ redis_up \in BOOLEAN
  /\ svc = NewService(redis_up)

vars == <<clock, redis_up, redis_zsets, redis_cursor, metric_windows, events,
          metric_specs, alert_history, anomaly_history, svc, loop, ev, fed,
          seen, completed, retries, max_saved, wres, fres, upd, ins, db_failed>>

\* ---------------------------------------------------------- environment
\* Time passes.  A tick is long against one pass of the loop body, so the clock
\* is read as standing still from a fetch to the end of its batch.
AdvanceClock ==
  /\ clock < MaxClock
  /\ loop.pc # "process"
  /\ clock' = clock + 1
  /\ UNCHANGED <<redis_up, redis_zsets, redis_cursor, metric_windows, events,
                 metric_specs, alert_history, anomaly_history, svc, loop, ev, fed,
                 seen, completed, retries, max_saved, wres, fres, upd, ins, db_failed>>

RedisDown ==
  /\ redis_up
  /\ redis_up' = FALSE
  /\ UNCHANGED <<clock, redis_zsets, redis_cursor, metric_windows, events,
                 metric_specs, alert_history, anomaly_history, svc, loop, ev, fed,
                 seen, completed, retries, max_saved, wres, fres, upd, ins, db_failed>>

RedisUp ==
  /\ ~redis_up
  /\ redis_up' = TRUE
  /\ UNCHANGED <<clock, redis_zsets, redis_cursor, metric_windows, events,
                 metric_specs, alert_history, anomaly_history, svc, loop, ev, fed,
                 seen, completed, retries, max_saved, wres, fres, upd, ins, db_failed>>

\* insert_event: created_at = datetime.utcnow()
Insert(kinds) ==
  /\ Len(events) < MaxEvents
  /\ \E kind \in kinds :
       events' = Append(events, [table_name |-> kind.table_name,
                                 payload |-> kind.payload, created_at |-> clock])
  /\ UNCHANGED <<clock, redis_up, redis_zsets, redis_cursor, metric_windows,
                 metric_specs, alert_history, anomaly_history, svc, loop, ev, fed,
                 seen, completed, retries, max_saved, wres, fres, upd, ins, db_failed>>

InsertEvent == Insert(EventKinds)
InsertPlainEvent == Insert(PlainKinds)

\* engine.connect(): the connection longest in the pool, or a new one
Checkout(pool) == IF pool = << >> THEN 0 ELSE Head(pool)
AfterCheckout(pool) == IF pool = << >> THEN pool ELSE Tail(pool)

\* insert_event, first execute: `with self.engine.connect() as conn`
InsertConnect ==
  /\ \E p \in Producers :
       /\ ins.call[p].pc = "idle"
       /\ Len(events) + Cardinality({q \in Producers : ins.call[q].pc = "insert"})
            < MaxEvents
       /\ ins' = [ins EXCEPT !.pool = AfterCheckout(@),
                             !.call[p] = [pc |-> "insert", conn |-> Checkout(ins.pool),
                                          id |-> 0]]
  /\ UNCHANGED <<clock, redis_up, redis_zsets, redis_cursor, metric_windows, events,
                 metric_specs, alert_history, anomaly_history, svc, loop, ev, fed,
                 seen, completed, retries, max_saved, wres, fres, upd, db_failed>>

\* ... the INSERT, conn.commit(), and the connection goes back to the pool
InsertCommit ==
  /\ \E p \in Producers, kind \in PlainKinds :
       LET id == Len(events) + 1 IN
       /\ ins.call[p].pc = "insert"
       /\ events' = Append(events, [table_name |-> kind.table_name,
                                    payload |-> kind.payload, created_at |-> clock])
       /\ ins' = [ins EXCEPT !.pool = Append(@, id),
                             !.call[p] = [pc |-> "inserted", conn |-> None, id |-> id]]
  /\ UNCHANGED <<clock, redis_up, redis_zsets, redis_cursor, metric_windows,
                 metric_specs, alert_history, anomaly_history, svc, loop, ev, fed,
                 seen, completed, retries, max_saved, wres, fres, upd, db_failed>>

\* insert_event, second execute: `with self.engine.connect() as conn`
SelectConnect ==
  /\ \E p \in Producers :
       /\ ins.call[p].pc = "inserted"
       /\ ins' = [ins EXCEPT !.pool = AfterCheckout(@),
                             !.call[p].pc = "select",
                             !.call[p].conn = Checkout(ins.pool)]
  /\ UNCHANGED <<clock, redis_up, redis_zsets, redis_cursor, metric_windows, events,
                 metric_specs, alert_history, anomaly_history, svc, loop, ev, fed,
                 seen, completed, retries, max_saved, wres, fres, upd, db_failed>>

\* SELECT last_insert_rowid(): the last row this connection inserted
LastInsertRowid(call) == call.conn

\* ... event_id = result[0]["id"]; return event_id
SelectReturn ==
  /\ \E p \in Producers :
       /\ ins.call[p].pc = "select"
       /\ ins' = [ins EXCEPT
                    !.pool = Append(@, ins.call[p].conn),
                    !.call[p] = NoCall,
                    !.done = @ \cup {<<ins.call[p].id, LastInsertRowid(ins.call[p])>>}]
  /\ UNCHANGED <<clock, redis_up, redis_zsets, redis_cursor, metric_windows, events,
                 metric_specs, alert_history, anomaly_history, svc, loop, ev, fed,
                 seen, completed, retries, max_saved, wres, fres, upd, db_failed>>

\* update_metric's allowed_fields
AllowedFields ==
  {"name", "description", "table_name", "filter_json", "window_sec", "threshold",
   "severity"}

UpdateMetricRowAnyField(metric, field, value) ==
  IF field = "window_sec" THEN [metric EXCEPT !.window_sec = value]
  ELSE IF field = "threshold" THEN [metric EXCEPT !.threshold = value]
  ELSE IF field = "is_active" THEN [metric EXCEPT !.is_active = (value = 1)]
  ELSE metric

\* update_metric: the row after one keyword argument (name, description and
\* severity are columns the model's row does not hold; table_name and
\* filter_json are not among the arguments the model passes)
UpdateMetricRow(metric, field, value) ==
  IF field \notin AllowedFields THEN metric
  ELSE IF field = "window_sec" THEN [metric EXCEPT !.window_sec = value]
  ELSE IF field = "threshold" THEN [metric EXCEPT !.threshold = value]
  ELSE metric

\* update_metric(metric_id, threshold=..) / update_metric(metric_id, window_sec=..)
UpdateMetric ==
  /\ \E m \in {x \in MetricIds : metric_specs[x].present} :
       \/ \E t \in Thresholds :
            /\ t # metric_specs[m].threshold
            /\ metric_specs' = [metric_specs EXCEPT ![m] = UpdateMetricRow(@, "threshold", t)]
       \/ \E w \in Windows :
            /\ w # metric_specs[m].window_sec
            /\ metric_specs' = [metric_specs EXCEPT ![m] = UpdateMetricRow(@, "window_sec", w)]
  /\ UNCHANGED <<clock, redis_up, redis_zsets, redis_cursor, metric_windows, events,
                 alert_history, anomaly_history, svc, loop, ev, fed,
                 seen, completed, retries, max_saved, wres, fres, upd, ins, db_failed>>

\* update_metric(metric_id, <field>=.., is_active=..): is_active is 1 or 0, as
\* SQLite stores it
Kwargs == { <<"threshold", t>> : t \in Thresholds } \cup { <<"severity", 0>> }

UpdateMetricKw ==
  /\ \E m \in {x \in MetricIds : metric_specs[x].present}, kw \in Kwargs, flag \in {0, 1} :
       /\ metric_specs' =
            [metric_specs EXCEPT ![m] =
               UpdateMetricRow(UpdateMetricRow(@, kw[1], kw[2]), "is_active", flag)]
       /\ upd' = [metric_id |-> m, flag |-> flag, before |-> metric_specs[m].is_active]
  /\ UNCHANGED <<clock, redis_up, redis_zsets, redis_cursor, metric_windows, events,
                 alert_history, anomaly_history, svc, loop, ev, fed,
                 seen, completed, retries, max_saved, wres, fres, ins, db_failed>>

\* create_metric: a row with a metric_id that holds no row and that nothing in
\* the store refers to
FreshIds ==
  { m \in MetricIds :
      /\ ~metric_specs[m].present /\ anomaly_history[m] = NoRow
      /\ HistoryOf(alert_history, m) = << >>
      /\ redis_zsets[m] = NoKey /\ metric_windows[m] = NoRows /\ ev[m] = NoEval }

CreateMetric ==
  /\ FreshIds # {}
  /\ \E filter \in {FAbsent}, w \in {1}, t \in Thresholds :
       LET m == CHOOSE x \in FreshIds : \A y \in FreshIds : x <= y
       IN metric_specs' = [metric_specs EXCEPT ![m] = Metric("login", filter, w, t)]
  /\ UNCHANGED <<clock, redis_up, redis_zsets, redis_cursor, metric_windows, events,
                 alert_history, anomaly_history, svc, loop, ev, fed,
                 seen, completed, retries, max_saved, wres, fres, upd, ins, db_failed>>

\* delete_metric: the Redis key when Redis answers, the metric_windows rows and
\* the metric_specs row
DeleteMetric ==
  /\ \E m \in {x \in MetricIds : metric_specs[x].present} :
       /\ redis_zsets' = [redis_zsets EXCEPT ![m] =
                            IF svc.redis_available /\ redis_up THEN NoKey ELSE @]
       /\ metric_windows' = [metric_windows EXCEPT ![m] = NoRows]
       /\ metric_specs' = [metric_specs EXCEPT ![m] = NoMetric]
  /\ UNCHANGED <<clock, redis_up, redis_cursor, events,
                 alert_history, anomaly_history, svc, loop, ev, fed,
                 seen, completed, retries, max_saved, wres, fres, upd, ins, db_failed>>

\* clear_all_windows: the metric:* keys when Redis answers, and metric_windows
ClearAllWindows ==
  /\ redis_zsets' = IF svc.redis_available /\ redis_up
                      THEN [m \in MetricIds |-> NoKey] ELSE redis_zsets
  /\ metric_windows' = [m \in MetricIds |-> NoRows]
  /\ UNCHANGED <<clock, redis_up, redis_cursor, events, metric_specs,
                 alert_history, anomaly_history, svc, loop, ev, fed,
                 seen, completed, retries, max_saved, wres, fres, upd, ins, db_failed>>

\* ---------------------------------------------------------- engine loop
\* get_last_processed_id: the Redis key when Redis answers and holds it, else
\* the instance's _last_processed_id
GetLastProcessedId(service, up, key) ==
  IF service.redis_available /\ up /\ key # None
    THEN key ELSE service.last_processed_id

FetchNewEventsNewestFirst(last_id, limit) ==
  LET n == IF Len(events) - last_id > limit THEN limit ELSE Len(events) - last_id
  IN [i \in 1..(IF n > 0 THEN n ELSE 0) |-> Len(events) - i + 1]

\* fetch_new_events: ids > last_id, ascending, at most limit
FetchNewEvents(last_id, limit) ==
  LET n == IF Len(events) - last_id > limit THEN limit ELSE Len(events) - last_id
  IN [i \in 1..(IF n > 0 THEN n ELSE 0) |-> last_id + i]

\* start_background while no loop thread is alive (clears the stop event), and
\* the thread's first statements, run_engine lines 662-666
IsAliveNever(service) == FALSE

\* self._engine_thread and self._engine_thread.is_alive()
IsAlive(service) == service.threads > 0

StartBackground ==
  /\ ~IsAlive(svc)
  /\ svc' = [svc EXCEPT !.stop_event = FALSE, !.engine_status = "running",
                        !.threads = @ + 1]
  /\ loop' = [IdleLoop EXCEPT !.pc = "loop",
                 !.last_processed_id = GetLastProcessedId(svc, redis_up, redis_cursor)]
  /\ UNCHANGED <<clock, redis_up, redis_zsets, redis_cursor, metric_windows, events,
                 metric_specs, alert_history, anomaly_history, ev, fed,
                 seen, completed, retries, max_saved, wres, fres, upd, ins, db_failed>>

IsSetNever(service) == FALSE

\* self._stop_event.is_set()
IsSet(service) == service.stop_event

\* while not stop_event: events = fetch_new_events(last_processed_id)
Fetch ==
  /\ loop.pc = "loop"
  /\ ~IsSet(svc)
  /\ LET batch == FetchNewEvents(loop.last_processed_id, FetchLimit) IN
     loop' = [loop EXCEPT !.pc = "process", !.batch = batch, !.n = Len(batch),
                          !.k = 0, !.raised = FALSE, !.saved = FALSE,
                          !.pre = <<svc.last_processed_id, redis_cursor>>]
  /\ UNCHANGED <<clock, redis_up, redis_zsets, redis_cursor, metric_windows, events,
                 metric_specs, alert_history, anomaly_history, svc, ev, fed,
                 seen, completed, retries, max_saved, wres, fres, upd, ins, db_failed>>

OnRaiseContinue(lp) == [lp EXCEPT !.batch = Tail(@), !.raised = TRUE]

OnRaiseThenSave(lp) == [lp EXCEPT !.pc = "process", !.batch = << >>, !.raised = TRUE]

\* what the except branch of run_engine does: no save, sleep, next iteration
OnRaise(lp) == [lp EXCEPT !.pc = "loop", !.batch = << >>, !.raised = TRUE]

\* for event in events: process_event(event); last_processed_id = event["id"]
\* (trackEv, trackFed: whether the history variables ev and fed are kept;
\* capped: whether calls on an event it was called on before are counted and
\* limited to MaxRetries)
ProcessCall(trackEv, trackFed, capped) ==
  /\ loop.pc = "process"
  /\ loop.batch # << >>
  /\ LET id == Head(loop.batch)
         S0 == [zsets |-> redis_zsets, windows |-> metric_windows,
                specs |-> metric_specs, hist |-> alert_history,
                anom |-> anomaly_history, avail |-> svc.redis_available,
                ev |-> ev, fed |-> fed, raised |-> FALSE]
         S == ProcessEvent(S0, events[id], clock, redis_up)
     IN /\ (capped /\ id \in seen) => retries < MaxRetries
        /\ redis_zsets' = S.zsets
        /\ metric_windows' = S.windows
        /\ metric_specs' = S.specs
        /\ alert_history' = S.hist
        /\ anomaly_history' = S.anom
        /\ svc' = [svc EXCEPT !.redis_available = S.avail]
        /\ ev' = IF trackEv THEN S.ev ELSE ev
        /\ fed' = IF trackFed THEN S.fed ELSE fed
        /\ seen' = seen \cup {id}
        /\ db_failed' = db_failed \ {id}
        /\ retries' = IF capped /\ id \in seen THEN retries + 1 ELSE retries
        /\ IF S.raised
             THEN /\ loop' = OnRaise(loop)
                  /\ completed' = completed
             ELSE /\ loop' = [loop EXCEPT !.last_processed_id = id,
                                          !.batch = Tail(@), !.k = @ + 1]
                  /\ completed' = completed \cup {id}
  /\ UNCHANGED <<clock, redis_up, redis_cursor, events, max_saved, wres, fres, upd, ins>>

Process(trackEv, trackFed) == ProcessCall(trackEv, trackFed, TRUE)

ProcessNext == Process(TRUE, FALSE)

\* execute: the rows of the statement, or [] when anything raised (the
\* database is locked, the file is unreachable, the disk is full)
Execute(rows, ok) == IF ok THEN rows ELSE << >>

\* events = fetch_new_events(last_processed_id) while SQLite fails
FetchFails ==
  /\ loop.pc = "loop"
  /\ ~IsSet(svc)
  /\ LET batch == Execute(FetchNewEvents(loop.last_processed_id, FetchLimit), FALSE) IN
     loop' = [loop EXCEPT !.pc = "process", !.batch = batch, !.n = Len(batch),
                          !.k = 0, !.raised = FALSE, !.saved = FALSE,
                          !.pre = <<svc.last_processed_id, redis_cursor>>]
  /\ UNCHANGED <<clock, redis_up, redis_zsets, redis_cursor, metric_windows, events,
                 metric_specs, alert_history, anomaly_history, svc, ev, fed,
                 seen, completed, retries, max_saved, wres, fres, upd, ins, db_failed>>

\* process_event(event) while SQLite fails: get_metrics_for_table returns
\* execute's [], the loop over the metrics has nothing to do and the call
\* returns; last_processed_id = event["id"]
ProcessFails ==
  /\ loop.pc = "process"
  /\ loop.batch # << >>
  /\ LET id == Head(loop.batch)
         metrics == Execute(<<metric_specs>>, FALSE)
     IN /\ metrics = << >>
        /\ seen' = seen \cup {id}
        /\ completed' = completed \cup {id}
        /\ db_failed' = db_failed \cup {id}
        /\ loop' = [loop EXCEPT !.last_processed_id = id, !.batch = Tail(@), !.k = @ + 1]
  /\ UNCHANGED <<clock, redis_up, redis_zsets, redis_cursor, metric_windows, events,
                 metric_specs, alert_history, anomaly_history, svc, ev, fed,
                 retries, max_saved, wres, fres, upd, ins>>

\* save_last_processed_id: the instance field ...
SaveLastProcessedId(service, event_id) == [service EXCEPT !.last_processed_id = event_id]

\* ... and the Redis key when Redis answers
SaveCursorKey(service, up, key, event_id) ==
  IF service.redis_available /\ up THEN event_id ELSE key

\* if events: save_last_processed_id(last_processed_id); time.sleep(tick_interval)
EndBatch ==
  /\ loop.pc = "process"
  /\ loop.batch = << >>
  /\ IF loop.n > 0
       THEN /\ svc' = SaveLastProcessedId(svc, loop.last_processed_id)
            /\ redis_cursor' = SaveCursorKey(svc, redis_up, redis_cursor,
                                             loop.last_processed_id)
            /\ max_saved' = IF loop.last_processed_id > max_saved
                              THEN loop.last_processed_id ELSE max_saved
            /\ loop' = [loop EXCEPT !.pc = "loop", !.saved = TRUE]
       ELSE /\ loop' = [loop EXCEPT !.pc = "loop"]
            /\ UNCHANGED <<svc, redis_cursor, max_saved>>
  /\ UNCHANGED <<clock, redis_up, redis_zsets, metric_windows, events,
                 metric_specs, alert_history, anomaly_history, ev, fed,
                 seen, completed, retries, wres, fres, upd, ins, db_failed>>

\* stop: _stop_event.set(); ignored then tells of start_background calls made
\* after this stop call
Stop ==
  /\ svc' = [svc EXCEPT !.stop_event = TRUE, !.ignored = "no", !.ignored_at = "idle"]
  /\ UNCHANGED <<clock, redis_up, redis_zsets, redis_cursor, metric_windows, events,
                 metric_specs, alert_history, anomaly_history, loop, ev, fed,
                 seen, completed, retries, max_saved, wres, fres, upd, ins, db_failed>>

\* the while condition fails: set_engine_status("stopped")
LoopExit ==
  /\ loop.pc = "loop"
  /\ IsSet(svc)
  /\ svc' = [svc EXCEPT !.engine_status = "stopped", !.threads = @ - 1]
  /\ loop' = [loop EXCEPT !.pc = "idle"]
  /\ UNCHANGED <<clock, redis_up, redis_zsets, redis_cursor, metric_windows, events,
                 metric_specs, alert_history, anomaly_history, ev, fed,
                 seen, completed, retries, max_saved, wres, fres, upd, ins, db_failed>>

\* The process ends (kill, container restart) and a new one constructs its
\* AlertEngineService: Redis and SQLite keep their contents, the instance does not.
Restart ==
  /\ svc' = NewService(redis_up)
  /\ loop' = IdleLoop
  /\ UNCHANGED <<clock, redis_up, redis_zsets, redis_cursor, metric_windows, events,
                 metric_specs, alert_history, anomaly_history, ev, fed,
                 seen, completed, retries, max_saved, wres, fres, upd, ins, db_failed>>

\* The evaluator under metric updates and window clears, one backend per run.
Next ==
  \/ AdvanceClock \/ InsertPlainEvent \/ UpdateMetric \/ ClearAllWindows
  \/ StartBackground \/ Fetch \/ ProcessNext \/ EndBatch

Spec == Init /\ [][Next]_vars

\* Scenario A generalised: one metric of a chosen window and threshold, one
\* backend per run, events fed and processed.
FeedNext == Process(TRUE, TRUE)

InitFeed ==
  /\ \E w \in Windows, t \in Thresholds :
       InitDb([OneMetric EXCEPT ![1] = Metric("login", FFailed, w, t)])
  /\ redis_up \in BOOLEAN
  /\ svc = NewService(redis_up)

NextFeed ==
  \/ AdvanceClock \/ InsertPlainEvent \/ StartBackground \/ Fetch \/ FeedNext
  \/ EndBatch

SpecFeed == InitFeed /\ [][NextFeed]_vars

\* The loop under restarts of the process, stop and start of the loop thread,
\* and Redis outages; both metrics, and events whose payload makes metric 2's
\* filter raise.
ProcessPlain == Process(FALSE, FALSE)

InitRestart ==
  /\ InitDb(DefaultMetrics)
  /\ redis_up \in BOOLEAN
  /\ svc = NewService(redis_up)

NextRestart ==
  \/ AdvanceClock \/ RedisDown \/ RedisUp \/ InsertEvent \/ StartBackground
  \/ Fetch \/ ProcessPlain \/ EndBatch \/ Stop \/ LoopExit \/ Restart

SpecRestart == InitRestart /\ [][NextRestart]_vars

\* The window counter alone: the same record, count and clear calls, at the
\* same clock values, on an instance whose Redis answers (its sorted set is
\* redis_zsets[1]) and on an instance without Redis (its rows are
\* metric_windows[1]); timestamps are arbitrary, wres.log is what was recorded.
PrimaryInstance ==
  [zsets |-> redis_zsets, windows |-> [m \in MetricIds |-> NoRows], avail |-> TRUE]
FallbackInstance ==
  [zsets |-> [m \in MetricIds |-> NoKey], windows |-> metric_windows, avail |-> FALSE]

InitWindow ==
  /\ InitDb(OneMetric)
  /\ redis_up = TRUE
  /\ svc = NewService(redis_up)

WRecord ==
  /\ wres.ops < MaxWinOps
  /\ \E ts \in Times, w \in Windows :
       /\ wres.ops > 0 => w = wres.w
       /\ redis_zsets' = UpdateMetricWindow(PrimaryInstance, 1, ts, w, clock, TRUE).zsets
       /\ metric_windows' =
            UpdateMetricWindow(FallbackInstance, 1, ts, w, clock, FALSE).windows
       /\ wres' = [wres EXCEPT !.w = w, !.ops = @ + 1, !.log[ts] = @ + 1]
  /\ UNCHANGED <<clock, redis_up, redis_cursor, events, metric_specs,
                 alert_history, anomaly_history, svc, loop, ev, fed,
                 seen, completed, retries, max_saved, fres, upd, ins, db_failed>>

WCount ==
  /\ wres.ops > 0
  /\ wres' = [wres EXCEPT
       !.done = TRUE, !.at = clock, !.seen = wres.log,
       !.primary = GetWindowCount(PrimaryInstance, 1, wres.w, clock, TRUE).count,
       !.fallback = GetWindowCount(FallbackInstance, 1, wres.w, clock, FALSE).count]
  /\ UNCHANGED <<clock, redis_up, redis_zsets, redis_cursor, metric_windows, events,
                 metric_specs, alert_history, anomaly_history, svc, loop, ev, fed,
                 seen, completed, retries, max_saved, fres, upd, ins, db_failed>>

WClear ==
  /\ wres.ops > 0
  /\ redis_zsets' = ClearMetricWindow(PrimaryInstance, 1, TRUE).zsets
  /\ metric_windows' = ClearMetricWindow(FallbackInstance, 1, FALSE).windows
  /\ wres' = [wres EXCEPT !.log = NoRows]
  /\ UNCHANGED <<clock, redis_up, redis_cursor, events, metric_specs,
                 alert_history, anomaly_history, svc, loop, ev, fed,
                 seen, completed, retries, max_saved, fres, upd, ins, db_failed>>

NextWindow == AdvanceClock \/ WRecord \/ WCount \/ WClear

SpecWindow == InitWindow /\ [][NextWindow]_vars

\* ------------------------------------------------------------------ claims
\* C1: count at time now returns the number of recorded timestamps t with
\* now - w <= t <= now, on the primary and on the fallback backend.
InWindow(log, now, w) == SumOver(log, {t \in Times : now - w <= t /\ t <= now})

C1_WindowCorrect ==
  wres.done =>
    /\ wres.primary = InWindow(wres.seen, wres.at, wres.w)
    /\ wres.fallback = InWindow(wres.seen, wres.at, wres.w)

\* C2: every count call returns the same number on both backends.
C2_BackendsAgree == wres.done => wres.primary = wres.fallback

Present == {m \in MetricIds : metric_specs[m].present}

\* C3: evaluations of a metric whose comparison result does not change append
\* at most one alert_history record; a run of evaluations that all see
\* count > threshold and that started INACTIVE has appended exactly one record
\* and left the metric active; an evaluation whose result matches the state it
\* read appends nothing.
C3_HysteresisIdempotent ==
  \A m \in Present :
    LET e == ev[m] IN
    /\ e.run <= 1
    /\ (e.res = "above" /\ ~e.runStart) =>
         (e.run = 1 /\ metric_specs[m].is_active)
    /\ (e.res # "none" /\ (e.res = "above") = e.before) => e.wrote = << >>

C3_Witness ==
  \E m \in Present :
    /\ ev[m].res = "above" /\ ev[m].before /\ ev[m].wrote = << >>
    /\ ev[m].run = 1 /\ ~ev[m].runStart

\* C4: an evaluation that sees count = threshold leaves an INACTIVE metric
\* inactive without a record, and resolves an ACTIVE metric.
C4_BoundaryTie ==
  \A m \in Present :
    ev[m].tie =>
      /\ ~metric_specs[m].is_active
      /\ ev[m].wrote = IF ev[m].before THEN << "resolved" >> ELSE << >>

C4_Witness ==
  \E m \in Present :
    /\ ev[m].tie /\ ev[m].before /\ ev[m].wrote = << "resolved" >>
    /\ metric_specs[m].threshold = 1

\* C6: an evaluation of an ACTIVE metric that sees count <= threshold appends
\* exactly one 'resolved' record, clears is_active, and leaves the anomaly row
\* resolved, with last_resolved_at the transition time and alert_count as before.
C6_ResolveTransition ==
  \A m \in Present :
    (ev[m].before /\ ev[m].res = "below") =>
      /\ ev[m].wrote = << "resolved" >>
      /\ ~metric_specs[m].is_active
      /\ anomaly_history[m].current_status = "resolved"
      /\ anomaly_history[m].last_resolved_at = ev[m].at
      /\ anomaly_history[m].alert_count = ev[m].acBefore

C6_Witness ==
  \E m \in Present :
    /\ ev[m].before /\ ev[m].res = "below"
    /\ anomaly_history[m].alert_count = 1
    /\ anomaly_history[m].last_resolved_at = clock
    /\ anomaly_history[m].last_resolved_at > anomaly_history[m].last_seen_at

\* C7: is_active is true exactly when the metric's last evaluation found
\* count > threshold (false before any evaluation).
C7_ActiveIffLastAbove ==
  \A m \in Present : metric_specs[m].is_active <=> ev[m].res = "above"

C7_Witness ==
  \E m \in Present :
    /\ ev[m].res = "below" /\ ~metric_specs[m].is_active
    /\ \E i \in DOMAIN alert_history :
         /\ alert_history[i].metric_id = m
         /\ alert_history[i].threshold # metric_specs[m].threshold
    /\ metric_windows[m] = NoRows /\ redis_zsets[m] = NoKey

WindowCountNow(m) ==
  GetWindowCount([zsets |-> redis_zsets, windows |-> metric_windows,
                  avail |-> svc.redis_available],
                 m, metric_specs[m].window_sec, clock, redis_up).count

C8_ReprocessingHasNoEffect ==
  [][ (/\ loop.pc = "process" /\ loop.batch # << >>
       /\ Head(loop.batch) \in completed
       /\ retries' = retries + 1)
      => /\ \A m \in Present : WindowCountNow(m)' = WindowCountNow(m)
         /\ \A m \in Present : metric_specs'[m].is_active = metric_specs[m].is_active
         /\ alert_history' = alert_history ]_vars

\* C9: save_last_processed_id is called only at the end of a batch whose events
\* were all processed; after a batch in which process_event raised, the cursor
\* in the instance and in Redis is the one from before the batch.
C9_CursorOnlyAfterFullBatch ==
  /\ loop.saved =>
       /\ ~loop.raised /\ loop.n > 0 /\ loop.k = loop.n
       /\ svc.last_processed_id = loop.last_processed_id
  /\ loop.raised =>
       /\ ~loop.saved
       /\ svc.last_processed_id = loop.pre[1]
       /\ redis_cursor = loop.pre[2]

C9_Witness ==
  /\ loop.raised /\ loop.n = 2 /\ loop.k = 1
  /\ loop.last_processed_id > svc.last_processed_id

\* C10: the cursor a loop starts from is never below a cursor saved before.
C10_ResumeAtSavedCursor ==
  loop.pc # "idle" => loop.last_processed_id >= max_saved

\* process_event(event) called on a new event of the login table, created now;
\* seen holds the ids of the events it was called on.
ProcessEventCall ==
  /\ Cardinality(seen) < MaxCalls
  /\ \E kind \in PlainKinds :
       LET S0 == [zsets |-> redis_zsets, windows |-> metric_windows,
                  specs |-> metric_specs, hist |-> alert_history,
                  anom |-> anomaly_history, avail |-> svc.redis_available,
                  ev |-> ev, fed |-> fed, raised |-> FALSE]
           event == [table_name |-> kind.table_name, payload |-> kind.payload,
                     created_at |-> clock]
           S == ProcessEvent(S0, event, clock, redis_up)
       IN /\ redis_zsets' = S.zsets
          /\ metric_windows' = S.windows
          /\ metric_specs' = S.specs
          /\ alert_history' = S.hist
          /\ anomaly_history' = S.anom
          /\ svc' = [svc EXCEPT !.redis_available = S.avail]
          /\ seen' = seen \cup {Cardinality(seen) + 1}
  /\ UNCHANGED <<clock, redis_up, redis_cursor, events, loop, ev, fed, completed,
                 retries, max_saved, wres, fres, upd, ins, db_failed>>

\* start_background while a loop thread is alive: the early return
StartWhileAlive ==
  /\ IsAlive(svc)
  /\ svc' = [svc EXCEPT !.ignored = IF svc.stop_event THEN "stopping" ELSE "running",
                        !.ignored_at = loop.pc]
  /\ UNCHANGED <<clock, redis_up, redis_zsets, redis_cursor, metric_windows, events,
                 metric_specs, alert_history, anomaly_history, loop, ev, fed,
                 seen, completed, retries, max_saved, wres, fres, upd, ins, db_failed>>

\* start_background and stop calls in any order beside the loop thread.
NextThreads ==
  \/ InsertPlainEvent \/ StartBackground \/ StartWhileAlive \/ Stop \/ LoopExit
  \/ Fetch \/ ProcessPlain \/ EndBatch

SpecThreads == Init /\ [][NextThreads]_vars

\* The same under a scheduler that lets the loop thread run: a statement of
\* run_engine that can be executed is executed in the end (time.sleep returns,
\* the thread is not starved).
RunEngineStep == Fetch \/ ProcessPlain \/ EndBatch \/ LoopExit

SpecStop == Init /\ [][NextThreads]_vars /\ WF_vars(RunEngineStep)

\* The metric API (create, update, delete) and the evaluator.
NextApi ==
  \/ AdvanceClock \/ ProcessEventCall \/ CreateMetric \/ UpdateMetricKw
  \/ DeleteMetric

SpecApi == Init /\ [][NextApi]_vars

\* Two metrics of the login table, the one with the lower metric_id being the
\* one whose filter raises on a text amount.
RaisingFirst ==
  [m \in MetricIds |-> IF m = 1 THEN Metric("login", FAmountGt, 1, 0)
                                ELSE Metric("login", FFailed, 2, 1)]

InitSiblings ==
  /\ InitDb(RaisingFirst)
  /\ redis_up \in BOOLEAN
  /\ svc = NewService(redis_up)

NextSiblings ==
  \/ AdvanceClock \/ InsertEvent \/ StartBackground \/ Fetch \/ FeedNext \/ EndBatch

SpecSiblings == InitSiblings /\ [][NextSiblings]_vars

\* Metrics of two tables and events of both: metric 1 counts failed logins,
\* metric 2 every transaction; window 1, threshold 0.
TwoTables ==
  [m \in MetricIds |-> IF m = 1 THEN Metric("login", FFailed, 1, 0)
                                ELSE Metric("transaction", FAbsent, 1, 0)]

FrameKinds ==
  { Event("login", PFailed), Event("login", PSuccess), Event("transaction", PFailed) }

InsertFrameEvent == Insert(FrameKinds)

InitFrame ==
  /\ InitDb(TwoTables)
  /\ redis_up \in BOOLEAN
  /\ svc = NewService(redis_up)

NextFrame ==
  \/ AdvanceClock \/ InsertFrameEvent \/ StartBackground \/ Fetch \/ FeedNext
  \/ EndBatch

SpecFrame == InitFrame /\ [][NextFrame]_vars

\* A loop that is started and whose thread is scheduled again and again, with
\* the metrics of RaisingFirst; an event is tried as often as it is fetched.
ProcessAlways == ProcessCall(FALSE, FALSE, FALSE)

NextLive ==
  \/ AdvanceClock \/ InsertEvent \/ StartBackground \/ Fetch \/ ProcessAlways
  \/ EndBatch

SpecLive ==
  /\ InitSiblings /\ [][NextLive]_vars
  /\ WF_vars(StartBackground \/ Fetch \/ ProcessAlways \/ EndBatch)

\* One metric of window 1 and threshold 0, and a loop that is started and
\* whose thread is scheduled again and again.
InitResolve ==
  /\ InitDb([OneMetric EXCEPT ![1] = Metric("login", FFailed, 1, 0)])
  /\ redis_up \in BOOLEAN
  /\ svc = NewService(redis_up)

SpecResolve ==
  /\ InitResolve /\ [][NextFeed]_vars
  /\ WF_vars(StartBackground \/ Fetch \/ FeedNext \/ EndBatch)

\* The loop while statements on the SQLite database fail now and then.
NextDb ==
  \/ InsertPlainEvent \/ StartBackground \/ Fetch \/ FetchFails \/ ProcessPlain
  \/ ProcessFails \/ EndBatch

SpecDb == Init /\ [][NextDb]_vars

\* insert_event called by several threads on one instance.
NextProducers == InsertConnect \/ InsertCommit \/ SelectConnect \/ SelectReturn

SpecProducers == Init /\ [][NextProducers]_vars

\* matches_filter alone, on payloads and stored filter values of every kind.
Payloads ==
  { Payload(st, am) : st \in {AbsentV, StrV("failed"), StrV("success")},
                      am \in {AbsentV, IntV(0), IntV(1), IntV(2), StrV("n/a")} }

Conds ==
  { Cond("status", "eq", StrV("failed")),
    Cond("status", "in", ListV({StrV("failed"), StrV("success")})),
    Cond("status", "in", IntV(1)),
    Cond("status", "gt", StrV("n/a")),
    Cond("amount", "eq", IntV(1)),
    Cond("amount", "gt", IntV(1)),
    Cond("amount", "lt", IntV(1)),
    Cond("amount", "gte", IntV(1)),
    Cond("amount", "lte", IntV(1)),
    Cond("amount", "in", ListV({IntV(0), IntV(2)})) }

RECURSIVE ItemLists(_)
ItemLists(n) ==
  IF n = 0 THEN { << >> }
  ELSE ItemLists(n - 1)
       \cup { Append(items, c) : items \in ItemLists(n - 1), c \in Conds }

Filters == { Obj(items) : items \in ItemLists(MaxConds) } \cup {FAbsent, FNotJson, FJsonList}

InitFilter ==
  /\ InitDb(OneMetric)
  /\ redis_up = TRUE
  /\ svc = NewService(redis_up)

Match ==
  /\ ~fres.done
  /\ \E payload \in Payloads, filter_json \in Filters :
       fres' = [done |-> TRUE, payload |-> payload, filter_json |-> filter_json,
                result |-> MatchesFilter(payload, filter_json)]
  /\ UNCHANGED <<clock, redis_up, redis_zsets, redis_cursor, metric_windows, events,
                 metric_specs, alert_history, anomaly_history, svc, loop, ev, fed,
                 seen, completed, retries, max_saved, wres, upd, ins, db_failed>>

NextFilter == Match

SpecFilter == InitFilter /\ [][NextFilter]_vars

\* A step of the loop that is one process_event call.
ProcessStep ==
  /\ loop.pc = "process" /\ loop.batch # << >>
  /\ loop' # loop /\ loop'.pc # "idle"

\* C11: a record or count call that finds Redis failing is completed on the
\* SQLite rows without raising to the loop, every later call of the instance
\* is served by SQLite, and only a newly constructed instance uses Redis again.
C11_FallbackSwitch ==
  [][ /\ (~svc.redis_available /\ svc'.redis_available)
          => (loop' = IdleLoop /\ svc' = NewService(TRUE))
      /\ ProcessStep =>
           LET e == events[Head(loop.batch)] IN
           (/\ MatchesFilter(e.payload, metric_specs[1].filter) = "true"
            /\ ~(svc.redis_available /\ redis_up))
           => /\ ~svc'.redis_available
              /\ redis_zsets' = redis_zsets
              /\ metric_windows'[1] =
                   UpdateMetricWindowSqlite(metric_windows[1], e.created_at, clock,
                                            metric_specs[1].window_sec)
              /\ loop'.pc \in {"process", "loop"}
              /\ (loop'.raised
                    => MatchesFilter(e.payload, metric_specs[2].filter) = "raise") ]_vars

C11_Witness ==
  /\ loop.n = 2 /\ loop.k = 2 /\ retries = 0
  /\ redis_zsets[1] # NoKey /\ metric_windows[1] # NoRows
  /\ ~svc.redis_available /\ redis_up

\* C12: when Redis fails after n events still inside the window were recorded
\* for a metric, the first count served by SQLite includes those n events (and
\* the event just recorded), and an ACTIVE metric whose window still holds more
\* than threshold events is not resolved by the switch.
InsideRedis(m) ==
  SumOver(LiveZ(redis_zsets[m], clock),
          {t \in Times : clock - metric_specs[m].window_sec < t /\ t <= clock})

C12_SwitchKeepsCount ==
  [][ (/\ ProcessStep
       /\ svc.redis_available /\ ~svc'.redis_available
       /\ MatchesFilter(events[Head(loop.batch)].payload, metric_specs[1].filter) = "true"
       /\ clock - metric_specs[1].window_sec < events[Head(loop.batch)].created_at)
      => /\ WindowCountNow(1)' >= InsideRedis(1) + 1
         /\ (metric_specs[1].is_active /\ InsideRedis(1) + 1 > metric_specs[1].threshold)
              => metric_specs'[1].is_active ]_vars

\* C13: matches_filter returns true for an empty or absent filter; for a
\* filter object it returns true exactly when every item's field is in the
\* payload and the item's operator holds, and false when a field is missing.
Holds(payload, c) ==
  LET actual == payload[c.key] IN
  /\ actual # AbsentV
  /\ IF c.op = "eq" THEN actual = c.val
     ELSE IF c.op = "in" THEN c.val.t = "list" /\ actual \in c.val.l
     ELSE /\ actual.t = c.val.t /\ actual.t \in {"int", "str"}
          /\ IF c.op = "gt" THEN Ord(actual) > Ord(c.val)
             ELSE IF c.op = "lt" THEN Ord(actual) < Ord(c.val)
             ELSE IF c.op = "gte" THEN Ord(actual) >= Ord(c.val)
             ELSE Ord(actual) <= Ord(c.val)

C13_FilterSemantics ==
  LET items == fres.filter_json.items IN
  (fres.done /\ fres.filter_json.kind \in {"absent", "object"}) =>
    IF items = << >> THEN fres.result = "true"
    ELSE /\ fres.result = "true" <=> \A i \in DOMAIN items : Holds(fres.payload, items[i])
         /\ (\E i \in DOMAIN items : fres.payload[items[i].key] = AbsentV)
              => fres.result = "false"

\* C14: for a stored filter that is not a well-formed filter mapping (text that
\* is not JSON, JSON that is not an object, an item whose expected value the
\* comparison cannot handle against the payload value) matches_filter returns
\* true and does not raise.
C14_MalformedFailOpen ==
  LET items == fres.filter_json.items IN
  (/\ fres.done
   /\ \/ fres.filter_json.kind \in {"text", "list"}
      \/ \E i \in DOMAIN items : CheckCond(fres.payload, items[i]) = "raise")
  => fres.result = "true"

\* C15: update_metric leaves is_active as it was, whatever its arguments; the
\* flag of a metric changes only in a process_event call that appends one
\* alert_history record for the metric.
C15_UpdateKeepsIsActive ==
  [][ \A m \in MetricIds :
        (/\ metric_specs[m].present /\ metric_specs'[m].present
         /\ metric_specs'[m].is_active # metric_specs[m].is_active)
        => /\ seen' # seen
           /\ Len(HistoryOf(alert_history', m)) = Len(HistoryOf(alert_history, m)) + 1 ]_vars

C15_Witness ==
  /\ upd.metric_id # None
  /\ upd.flag = 0 /\ upd.before
  /\ metric_specs[upd.metric_id].present /\ metric_specs[upd.metric_id].is_active

\* C16: the alert_count of every anomaly_history row is the number of
\* 'triggered' alert_history records of its metric_id.
C16_AlertCountIsTriggers ==
  \A m \in MetricIds :
    anomaly_history[m] # NoRow
      => anomaly_history[m].alert_count = TriggeredCount(alert_history, m)

C16_Witness ==
  \E m \in MetricIds :
    /\ anomaly_history[m].alert_count = 2
    /\ Len(HistoryOf(alert_history, m)) = 3

\* C17: every anomaly_history row (one per metric_id, the table's primary key)
\* has current_status 'active' exactly when the metric_specs row of its
\* metric_id has is_active true.
C17_StatusMirrorsFlag ==
  \A m \in MetricIds :
    anomaly_history[m] # NoRow
      => (anomaly_history[m].current_status = "active"
            <=> (metric_specs[m].present /\ metric_specs[m].is_active))

\* C18: a 'triggered' transition sets last_seen_at to the transition time, sets
\* detected_at to it only when the row was absent or 'resolved', and leaves
\* last_resolved_at; a 'resolved' transition sets last_resolved_at and leaves
\* detected_at and last_seen_at; no other step changes a row.
C18_TimestampsOnOwnTransition ==
  [][ \A m \in MetricIds :
        LET old == anomaly_history[m]
            new == anomaly_history'[m]
            before == HistoryOf(alert_history, m)
            after == HistoryOf(alert_history', m)
        IN IF Len(after) = Len(before) THEN new = old
           ELSE IF after[Len(after)].action = "triggered"
             THEN /\ new.last_seen_at = clock
                  /\ new.detected_at =
                       IF old.current_status \in {"absent", "resolved"}
                         THEN clock ELSE old.detected_at
                  /\ new.last_resolved_at = old.last_resolved_at
             ELSE /\ new.last_resolved_at = clock
                  /\ new.detected_at = old.detected_at
                  /\ new.last_seen_at = old.last_seen_at ]_vars

C18_Witness ==
  \E m \in MetricIds :
    /\ anomaly_history[m].current_status = "active"
    /\ anomaly_history[m].last_resolved_at # None
    /\ anomaly_history[m].last_resolved_at < anomaly_history[m].detected_at
    /\ anomaly_history[m].detected_at = anomaly_history[m].last_seen_at

C21_CooperativeStop ==
  /\ [][ (IsSet(svc) /\ loop.pc = "loop" /\ loop' # loop) => loop'.pc = "idle" ]_vars
  /\ [](svc.engine_status = "running" <=> loop.pc # "idle")
  /\ (svc.stop_event ~> svc.engine_status = "stopped")

C21_Witness ==
  /\ svc.stop_event /\ svc.engine_status = "stopped" /\ loop.pc = "idle"
  /\ loop.n = 1 /\ loop.k = 1 /\ loop.last_processed_id = 1 /\ Len(events) = 2

\* C22: every insert_event call returns the id of the row it inserted, and of
\* two calls the one whose row was committed later returns the larger id.
C22_InsertReturnsOwnId ==
  /\ \A c \in ins.done : c[2] = c[1]
  /\ \A c, d \in ins.done : c[1] < d[1] => c[2] < d[2]

\* C23: the cursor, in the loop and as saved, stays below every event whose
\* last process_event call met a failing SQLite statement.
C23_StoreFailureHoldsCursor ==
  \A id \in db_failed : loop.last_processed_id < id /\ svc.last_processed_id < id

\* C24: a process_event call records the event in the window of every metric
\* of the event's table whose filter matches it, also when the call raised
\* for another metric of that table.
C24_SiblingIsolation ==
  [][ ProcessStep =>
        LET e == events[Head(loop.batch)] IN
        \A m \in Present :
          (/\ metric_specs[m].table_name = e.table_name
           /\ MatchesFilter(e.payload, metric_specs[m].filter) = "true")
          => fed'[m].n = fed[m].n + 1 ]_vars

\* C25: a process_event call that raises ends the batch with the loop's cursor
\* as it was (the id of the last event that completed), and the loop's next
\* fetch returns a batch whose first event is the one that raised.
C25_FailingEventNotPassed ==
  [][ /\ (ProcessStep /\ loop'.raised)
           => /\ loop'.pc = "loop" /\ loop'.batch = << >>
              /\ loop'.last_processed_id = loop.last_processed_id
              /\ Head(loop.batch) \notin completed'
      /\ (loop.raised /\ loop.pc = "loop" /\ loop'.pc = "process")
           => /\ loop'.batch # << >>
              /\ Head(loop'.batch) \in seen \ completed
              /\ \A id \in seen \ completed : Head(loop'.batch) <= id ]_vars

C25_Witness ==
  /\ loop.pc = "process" /\ loop.batch = << 2 >> /\ loop.k = 0
  /\ 2 \in seen \ completed /\ 1 \in completed
  /\ loop.last_processed_id = 1 /\ svc.last_processed_id = 0

\* C26: fetch_new_events(cursor, limit) returns at most limit ids, all above
\* cursor, ascending, the lowest such ids of the table; in the run of one loop
\* every event that completes has the id that follows the last completed one,
\* also when events are appended between the loop's steps.
C26_EventOrder ==
  [][ /\ \A cursor \in 0..Len(events), limit \in 1..MaxEvents :
           LET b == FetchNewEvents(cursor, limit) IN
           /\ Len(b) <= limit
           /\ Len(b) = limit \/ Len(b) = Len(events) - cursor
           /\ \A i \in DOMAIN b : b[i] = cursor + i
      /\ (ProcessStep /\ ~loop'.raised)
           => LET id == Head(loop.batch) IN
              /\ completed' = completed \cup {id}
              /\ id \notin completed
              /\ \A c \in completed : c < id
              /\ completed # {} => id - 1 \in completed ]_vars

C26_Witness ==
  /\ completed = {1, 2} /\ loop.pc = "process" /\ loop.batch = << >>
  /\ loop.n = 1 /\ loop.k = 1 /\ svc.last_processed_id = 1

\* C27: a process_event call leaves the window, flag, history and anomaly row
\* of every metric of another table or with a filter that does not match as
\* they were; for a metric that matches it records the event and then
\* evaluates, so the transition it makes is the one the count after the record
\* calls for.
C27_OnlyMatchingMetrics ==
  [][ ProcessStep =>
        LET e == events[Head(loop.batch)] IN
        \A m \in Present :
          IF /\ metric_specs[m].table_name = e.table_name
             /\ MatchesFilter(e.payload, metric_specs[m].filter) = "true"
            THEN /\ fed'[m].n = fed[m].n + 1
                 /\ LET action == AlertAction(WindowCountNow(m)', metric_specs[m].threshold,
                                              metric_specs[m].is_active)
                    IN metric_specs'[m].is_active =
                         IF action = "none" THEN metric_specs[m].is_active
                         ELSE action = "triggered"
            ELSE /\ redis_zsets'[m] = redis_zsets[m]
                 /\ metric_windows'[m] = metric_windows[m]
                 /\ metric_specs'[m] = metric_specs[m]
                 /\ anomaly_history'[m] = anomaly_history[m]
                 /\ HistoryOf(alert_history', m) = HistoryOf(alert_history, m) ]_vars

C27_Witness ==
  /\ metric_specs[2].is_active /\ ~metric_specs[1].is_active
  /\ fed[1].n = 0 /\ fed[2].n = 1 /\ completed = {1, 2}
  /\ anomaly_history[1] = NoRow /\ anomaly_history[2].current_status = "active"

\* C28: while the loop runs, its cursor catches up again and again with the
\* last event of the events table, so that every event is passed in the end.
C28_NoHeadOfLineBlocking ==
  (loop.pc # "idle") ~> (loop.last_processed_id >= Len(events))

\* C29: while the loop runs, an ACTIVE metric whose window holds at most
\* threshold events is resolved in the end.
C29_ResolutionLiveness ==
  (/\ loop.pc # "idle" /\ metric_specs[1].is_active
   /\ WindowCountNow(1) <= metric_specs[1].threshold)
  ~> ~metric_specs[1].is_active

\* C30: the engine is never left stopped and without a loop thread after a
\* start_background call that was made while the stopped loop's thread was
\* still alive inside a tick and that no stop call followed.
C30_StartAfterTimedOutStop ==
  ~(/\ svc.ignored = "stopping" /\ svc.ignored_at = "process"
    /\ svc.threads = 0 /\ svc.engine_status = "stopped" /\ loop.pc = "idle")

====
